---- MODULE Spec2Model ----
(***************************************************************************)
(* NPI taxonomy lookup: the batch pipeline of the two drivers of the       *)
(* repository, the interactive one (app.py, main) and the command-line one *)
(* (npi_lookup.py, process_npi_file).                                      *)
(*                                                                         *)
(* Python strings that the code inspects character by character (the raw   *)
(* cells of the identifier column, the normalized NPI) are sequences of    *)
(* one-character strings.  Registry field values, which the code only      *)
(* copies, are TLA+ strings.                                               *)
(***************************************************************************)
EXTENDS Integers, Sequences, FiniteSets, TLC

\* ------------------------------------------------------------------ bounds

\* Largest number of cells in the identifier column of the input sheet.
MaxCells == 3

\* ------------------------------------------------------- program constants

\* len(npi) != 10
NpiLen == 10

\* response.status_code == 200
HttpOk == 200

\* ----------------------------------------------------------- Python strings

\* Characters str.strip() removes (the only whitespace of the sample cells).
IsSpace(c) == c = " "

\* The characters for which str.isdigit() is true: the ASCII decimal digits
\* and also every other character of Unicode Numeric_Type Digit or Decimal,
\* of which SUPERSCRIPT TWO stands here.
AsciiDigits == {"0", "1", "2", "3", "4", "5", "6", "7", "8", "9"}

PyDigitChars == AsciiDigits \cup {"²"}

\* str.lstrip()
RECURSIVE LStrip(_)
LStrip(s) ==
    IF s # <<>> /\ IsSpace(Head(s)) THEN LStrip(Tail(s)) ELSE s

\* str.rstrip()
RECURSIVE RStrip(_)
RStrip(s) ==
    IF s # <<>> /\ IsSpace(s[Len(s)]) THEN RStrip(SubSeq(s, 1, Len(s) - 1)) ELSE s

\* str.strip()
Strip(s) == RStrip(LStrip(s))

\* str.replace('.0', ''): one left-to-right pass over the non-overlapping
\* occurrences; what the removal brings together is not scanned again.
RECURSIVE ReplaceDotZero(_)
ReplaceDotZero(s) ==
    IF Len(s) < 2 THEN s
    ELSE IF s[1] = "." /\ s[2] = "0" THEN ReplaceDotZero(SubSeq(s, 3, Len(s)))
    ELSE <<s[1]>> \o ReplaceDotZero(Tail(s))

\* str.isdigit(): non-empty and every character a digit character.
IsDigit(s) == s # <<>> /\ \A k \in 1..Len(s) : s[k] \in PyDigitChars

\* ------------------------------------------------------------ sample cells

\* A missing cell (NaN) of the column, read with dtype=str.
NaN == <<"NaN">>

Npi1 == <<"1", "2", "3", "4", "5", "6", "7", "8", "9", "3">>

\* The cells the identifier column is drawn from.
RawCells ==
    { NaN,
      Npi1,
      <<" ">> \o Npi1,
      Npi1 \o <<".", "0">>,
      <<"1", "2", "3", "4", "5", "6", "7", "8", "9", "²">>,
      <<"1", "2", "3">>,
      <<"1", "2", "3", "4", "5", "a", "b", "c", "d", "e">> }

Columns ==
    UNION { [1..n -> RawCells] : n \in 0..MaxCells }

\* df[...].dropna(): the cells that are not missing, in column order.
DropNa(col) == SelectSeq(col, LAMBDA c : c # NaN)

\* Series.unique(): the distinct values in order of first occurrence.
RECURSIVE Unique(_)
Unique(col) ==
    IF col = <<>> THEN <<>>
    ELSE LET rest == Unique(SubSeq(col, 1, Len(col) - 1))
             last == col[Len(col)]
         IN  IF \E k \in 1..Len(rest) : rest[k] = last THEN rest
             ELSE Append(rest, last)

\* ---------------------------------------------------------- registry values

\* Two taxonomy objects of the registry: one with every key, one with only
\* code and desc.
TaxFull ==
    [code |-> "207Q00000X", desc |-> "Family Medicine", primary |-> "true",
     state |-> "CA", license |-> "A12345"]

TaxPartial == [code |-> "363L00000X", desc |-> "Nurse Practitioner"]

NoDict == [k \in {} |-> ""]

\* One element of a JSON array: an object (a Python dict) or a string.
DictItem(d) == [t |-> "dict", d |-> d]

StrItem == [t |-> "str", d |-> NoDict]

\* Python values get_taxonomy_data can return: a list, None, or a number.
PyList(items) == [t |-> "list", items |-> items]

PyNone == [t |-> "none", items |-> <<>>]

PyInt == [t |-> "int", items |-> <<>>]

EmptyList == PyList(<<>>)

\* The values of the 'taxonomies' entry of the first result.
TaxValues ==
    { EmptyList,
      PyList(<<DictItem(TaxFull)>>),
      PyList(<<DictItem(TaxPartial), DictItem(TaxFull)>>),
      PyList(<<DictItem(TaxFull), StrItem>>),
      PyList(<<StrItem>>),
      PyNone,
      PyInt }

\* What requests.get and the registry can answer to one request.
\*   kind         "timeout", "conn_error" (requests.get raises) or "http"
\*   status       the status code
\*   json         "invalid" (response.json() raises), "list" or "dict"
\*   has_count    'result_count' is a key of the body
\*   result_count its value
\*   results      "absent", "empty" ([]), "str_item" (["x"]) or "entity"
\*   has_tax      'taxonomies' is a key of results[0]
\*   taxonomies   its value
Resp(kind, status, json, has_count, result_count, results, has_tax, taxonomies) ==
    [kind |-> kind, status |-> status, json |-> json, has_count |-> has_count,
     result_count |-> result_count, results |-> results, has_tax |-> has_tax,
     taxonomies |-> taxonomies]

Responses ==
    { Resp(k, 0, "invalid", FALSE, 0, "absent", FALSE, EmptyList) :
          k \in {"timeout", "conn_error"} }
    \cup { Resp("http", st, "dict", TRUE, 1, "entity", TRUE, PyList(<<DictItem(TaxFull)>>)) :
          st \in {404, 500} }
    \cup { Resp("http", HttpOk, j, FALSE, 0, "absent", FALSE, EmptyList) :
          j \in {"invalid", "list"} }
    \cup { Resp("http", HttpOk, "dict", hc, rc, rs, FALSE, EmptyList) :
          hc \in BOOLEAN, rc \in {0, 1}, rs \in {"absent", "empty", "str_item", "entity"} }
    \cup { Resp("http", HttpOk, "dict", TRUE, 1, "entity", TRUE, t) : t \in TaxValues }

\* ------------------------------------------------------- get_taxonomy_data

\* The body of the try block: what it returns, or that it raised, or that it
\* fell through to the statement after the try.
Returned(v) == [how |-> "return", value |-> v]

Raised == [how |-> "raise", value |-> EmptyList]

FellThrough == [how |-> "fall", value |-> EmptyList]

TryBody(resp) ==
    \* response = requests.get(url, params=params, timeout=...)
    IF resp.kind # "http" THEN Raised
    \* if response.status_code == 200:
    ELSE IF resp.status # HttpOk THEN FellThrough
    \* data = response.json()
    ELSE IF resp.json = "invalid" THEN Raised
    \* data.get(...) on a body that is not an object
    ELSE IF resp.json # "dict" THEN Raised
    \* if data.get('result_count', 0) > 0 and 'results' in data:
    ELSE IF ~((IF resp.has_count THEN resp.result_count ELSE 0) > 0
              /\ resp.results # "absent") THEN FellThrough
    \* data['results'][0]: IndexError on [], .get on a string
    ELSE IF resp.results \in {"empty", "str_item"} THEN Raised
    \* return data['results'][0].get('taxonomies', [])
    ELSE Returned(IF resp.has_tax THEN resp.taxonomies ELSE EmptyList)

\* get_taxonomy_data with an except clause that names only the transport's
\* exceptions: what response.json() or the body's shape raises propagates.
GetTaxonomyData_narrow(resp) ==
    LET r == TryBody(resp)
    IN  IF r.how = "return" THEN Returned(r.value)
        ELSE IF r.how = "raise" /\ resp.kind = "http" THEN Raised
        ELSE Returned(EmptyList)

\* get_taxonomy_data: except Exception swallows whatever the try block raised,
\* and everything but the return inside it ends in `return []`.
GetTaxonomyData(resp) ==
    LET r == TryBody(resp)
    IN  IF r.how = "return" THEN Returned(r.value) ELSE Returned(EmptyList)

\* ------------------------------------------------------------ the two drivers

Drivers == {"app", "cli"}

\* The cleaning of one cell.  main: str(npi).strip().replace('.0', '');
\* process_npi_file: npi.strip().
Normalize(d, raw) ==
    IF d = "app" THEN ReplaceDotZero(Strip(raw)) ELSE Strip(raw)

\* main: len(npi) != 10 or not npi.isdigit();
\* process_npi_file: not npi.isdigit() or len(npi) != 10.
IsMalformed(d, s) ==
    IF d = "app" THEN Len(s) # NpiLen \/ ~IsDigit(s)
    ELSE ~IsDigit(s) \/ Len(s) # NpiLen

\* The keys of the dicts appended to output_rows, in the order the dict
\* literals write them.
KeyOrder ==
    <<"NPI", "Taxonomy Code", "Taxonomy Description", "Primary Taxonomy",
      "State", "License">>

\* dict.get(key, '')
Get(tax, key) == IF key \in DOMAIN tax THEN tax[key] ELSE ""

\* The dict of one taxonomy object with state and license exchanged.
FoundRow_swapped(s, tax) ==
    ("NPI" :> s) @@ ("Taxonomy Code" :> Get(tax, "code"))
    @@ ("Taxonomy Description" :> Get(tax, "desc"))
    @@ ("Primary Taxonomy" :> Get(tax, "primary"))
    @@ ("State" :> Get(tax, "license"))
    @@ ("License" :> Get(tax, "state"))

\* The dict appended for one taxonomy object.
FoundRow(s, tax) ==
    ("NPI" :> s) @@ ("Taxonomy Code" :> Get(tax, "code"))
    @@ ("Taxonomy Description" :> Get(tax, "desc"))
    @@ ("Primary Taxonomy" :> Get(tax, "primary"))
    @@ ("State" :> Get(tax, "state"))
    @@ ("License" :> Get(tax, "license"))

\* The dict appended when the lookup gave nothing: main writes two keys,
\* process_npi_file all six.
NotFoundRow(d, s) ==
    IF d = "app" THEN ("NPI" :> s) @@ ("Taxonomy Code" :> "Not Found")
    ELSE ("NPI" :> s) @@ ("Taxonomy Code" :> "Not Found")
         @@ ("Taxonomy Description" :> "") @@ ("Primary Taxonomy" :> "")
         @@ ("State" :> "") @@ ("License" :> "")

\* A malformed branch that appends nothing in either driver.
InvalidRows_none(d, s) == <<>>

\* What the malformed branch appends before `continue`: main one dict,
\* process_npi_file nothing (it prints "Skipping invalid NPI format").
InvalidRows(d, s) ==
    IF d = "app" THEN <<("NPI" :> s) @@ ("Taxonomy Code" :> "Invalid Format")>>
    ELSE <<>>

\* Python truth value of what get_taxonomy_data returned.
Truthy(v) == (v.t = "list" /\ v.items # <<>>) \/ v.t = "int"

\* for tax in taxonomies: output_rows.append({... tax.get(...) ...}).
\* The dicts appended before the loop ends or raises: tax.get raises on an
\* element that is not a dict.
RECURSIVE LoopRows(_, _)
LoopRows(s, items) ==
    IF items = <<>> THEN [rows |-> <<>>, raised |-> FALSE]
    ELSE IF Head(items).t # "dict" THEN [rows |-> <<>>, raised |-> TRUE]
    ELSE LET rest == LoopRows(s, Tail(items))
         IN  [rows |-> <<FoundRow(s, Head(items).d)>> \o rest.rows,
              raised |-> rest.raised]

\* The if/else after the lookup: the dicts it appends and whether it raised
\* (iterating a number raises before anything is appended).
Expand(d, s, v) ==
    IF Truthy(v)
    THEN IF v.t = "list" THEN LoopRows(s, v.items)
         ELSE [rows |-> <<>>, raised |-> TRUE]
    ELSE [rows |-> <<NotFoundRow(d, s)>>, raised |-> FALSE]

\* Insertion at the front of the list instead of list.append.
Extend_front(rows, new) == new \o rows

\* list.append, once per new dict.
Extend(rows, new) == rows \o new

\* pd.DataFrame(output_rows): the columns are the keys of the dicts in order
\* of first appearance (every dict here writes a prefix of KeyOrder, so that
\* order is KeyOrder's), and a key a dict lacks is a missing value.
MissingCell == "nan"

DataFrame(rows) ==
    LET cols == SelectSeq(KeyOrder,
                    LAMBDA c : \E k \in 1..Len(rows) : c \in DOMAIN rows[k])
        colset == {cols[k] : k \in 1..Len(cols)}
    IN  [columns |-> cols,
         rows |-> [k \in 1..Len(rows) |->
                     [c \in colset |->
                        IF c \in DOMAIN rows[k] THEN rows[k][c] ELSE MissingCell]]]

NoFrame == [columns |-> <<>>, rows |-> <<>>]

\* df.to_excel(..., index=False): a header row of the frame's columns and one
\* data row per row of the frame.
ToExcel(df) == [header |-> df.columns, data |-> df.rows]

\* A request that is issued again when the try block did not return.
AfterResponse_retry(resp) ==
    IF TryBody(resp).how = "return" THEN "rows" ELSE "request"

\* Where control goes after an answer to the request: get_taxonomy_data
\* returns (or raises) to the loop; there is no second request.
AfterResponse(resp) == "rows"

\* A not-found branch that ends in `continue`, skipping the delay.
AfterRows_skip(v) == IF Truthy(v) THEN "sleep" ELSE "loop"

\* Where control goes after the rows of a looked-up identifier are appended:
\* time.sleep(...), on the found and on the not-found path alike.
AfterRows(v) == "sleep"

\* ----------------------------------------------------------------- state

VARIABLES
    driver,       \* which driver runs
    column,       \* the identifier column of the sheet, missing cells included
    npi_list,     \* npi_list / npi_column_data
    i,            \* number of elements of npi_list the for loop has taken
    npi,          \* the loop variable after cleaning
    taxonomies,   \* what get_taxonomy_data returned last
    output_rows,  \* the list of dicts
    result_df,    \* the DataFrame built after the loop
    sheet,        \* the exported sheet
    built,        \* result_df exists
    exported,     \* the sheet exists
    in_flight,    \* requests awaiting their answer
    pc,           \* position in the driver
    \* history, not program state:
    row_src,      \* for each dict of output_rows, the position in npi_list it came from
    classified,   \* for each element taken, whether it passed the format check
    seen,         \* for each element taken, its cleaned form
    calls,        \* positions for which get_taxonomy_data was called, in call order
    requests,     \* number of HTTP requests issued
    sleeps,       \* number of pacing delays executed
    last_resp     \* the answer to the request of the current call

vars ==
    <<driver, column, npi_list, i, npi, taxonomies, output_rows, result_df,
      sheet, built, exported, in_flight, pc, row_src, classified, seen, calls,
      requests, sleeps, last_resp>>

NoResp == Resp("none", 0, "invalid", FALSE, 0, "absent", FALSE, EmptyList)

Init ==
    /\ driver \in Drivers
    /\ column \in Columns
    /\ npi_list = <<>>
    /\ i = 0
    /\ npi = <<>>
    /\ taxonomies = EmptyList
    /\ output_rows = <<>>
    /\ result_df = NoFrame
    /\ sheet = ToExcel(NoFrame)
    /\ built = FALSE
    /\ exported = FALSE
    /\ in_flight = 0
    /\ pc = "idle"
    /\ row_src = <<>>
    /\ classified = <<>>
    /\ seen = <<>>
    /\ calls = <<>>
    /\ requests = 0
    /\ sleeps = 0
    /\ last_resp = NoResp

\* The column is read and the loop set up: dropna().unique(), output_rows = [].
StartProcessing ==
    /\ pc = "idle"
    /\ npi_list' = Unique(DropNa(column))
    /\ output_rows' = <<>>
    /\ row_src' = <<>>
    /\ pc' = "loop"
    /\ UNCHANGED <<driver, column, i, npi, taxonomies, result_df, sheet, built,
                   exported, in_flight, classified, seen, calls, requests,
                   sleeps, last_resp>>

\* The for statement takes the next element, cleans it and checks its format;
\* a malformed one is dealt with here and the loop continues.
NextIdentifier ==
    /\ pc = "loop"
    /\ i < Len(npi_list)
    /\ LET s == Normalize(driver, npi_list[i + 1])
           bad == IsMalformed(driver, s)
           new == InvalidRows(driver, s)
       IN  /\ i' = i + 1
           /\ npi' = s
           /\ seen' = Append(seen, s)
           /\ classified' = Append(classified, ~bad)
           /\ output_rows' = IF bad THEN Extend(output_rows, new) ELSE output_rows
           /\ row_src' = IF bad THEN Extend(row_src, [k \in 1..Len(new) |-> i + 1])
                         ELSE row_src
           /\ pc' = IF bad THEN "loop" ELSE "call"
    /\ UNCHANGED <<driver, column, npi_list, taxonomies, result_df, sheet, built,
                   exported, in_flight, calls, requests, sleeps, last_resp>>

\* taxonomies = get_taxonomy_data(npi): the function is entered.
CallLookup ==
    /\ pc = "call"
    /\ calls' = Append(calls, i)
    /\ pc' = "request"
    /\ UNCHANGED <<driver, column, npi_list, i, npi, taxonomies, output_rows,
                   result_df, sheet, built, exported, in_flight, row_src,
                   classified, seen, requests, sleeps, last_resp>>

\* response = requests.get(url, params=params, timeout=...): the request is
\* issued.
SendRequest ==
    /\ pc = "request"
    /\ requests' = requests + 1
    /\ in_flight' = in_flight + 1
    /\ pc' = "wait"
    /\ UNCHANGED <<driver, column, npi_list, i, npi, taxonomies, output_rows,
                   result_df, sheet, built, exported, row_src, classified, seen,
                   calls, sleeps, last_resp>>

\* requests.get ends (an answer, a timeout, a transport error) and
\* get_taxonomy_data returns to the loop.
ReceiveResponse ==
    /\ pc = "wait"
    /\ \E resp \in Responses :
         LET r == GetTaxonomyData(resp)
         IN  /\ last_resp' = resp
             /\ in_flight' = in_flight - 1
             /\ taxonomies' = IF r.how = "return" THEN r.value ELSE taxonomies
             /\ pc' = IF r.how = "return" THEN AfterResponse(resp) ELSE "aborted"
    /\ UNCHANGED <<driver, column, npi_list, i, npi, output_rows, result_df,
                   sheet, built, exported, row_src, classified, seen, calls,
                   requests, sleeps>>

\* The if/else on taxonomies appends its dicts; an exception leaves the loop
\* (main's outer except reports it, process_npi_file lets it propagate) and
\* the result table is never built.
AppendRows ==
    /\ pc = "rows"
    /\ LET e == Expand(driver, npi, taxonomies)
       IN  /\ output_rows' = Extend(output_rows, e.rows)
           /\ row_src' = Extend(row_src, [k \in 1..Len(e.rows) |-> i])
           /\ pc' = IF e.raised THEN "aborted" ELSE AfterRows(taxonomies)
    /\ UNCHANGED <<driver, column, npi_list, i, npi, taxonomies, result_df,
                   sheet, built, exported, in_flight, classified, seen, calls,
                   requests, sleeps, last_resp>>

\* time.sleep(...)
Sleep ==
    /\ pc = "sleep"
    /\ sleeps' = sleeps + 1
    /\ last_resp' = NoResp
    /\ pc' = "loop"
    /\ UNCHANGED <<driver, column, npi_list, i, npi, taxonomies, output_rows,
                   result_df, sheet, built, exported, in_flight, row_src,
                   classified, seen, calls, requests>>

\* The loop is exhausted: result_df = pd.DataFrame(output_rows).
BuildResult ==
    /\ pc = "loop"
    /\ i = Len(npi_list)
    /\ result_df' = DataFrame(output_rows)
    /\ built' = TRUE
    /\ pc' = "export"
    /\ UNCHANGED <<driver, column, npi_list, i, npi, taxonomies, output_rows,
                   sheet, exported, in_flight, row_src, classified, seen, calls,
                   requests, sleeps, last_resp>>

\* convert_df_to_excel(result_df) / result_df.to_excel(output_file_path, index=False)
Export ==
    /\ pc = "export"
    /\ sheet' = ToExcel(result_df)
    /\ exported' = TRUE
    /\ pc' = "done"
    /\ UNCHANGED <<driver, column, npi_list, i, npi, taxonomies, output_rows,
                   result_df, built, in_flight, row_src, classified, seen, calls,
                   requests, sleeps, last_resp>>

Next ==
    \/ StartProcessing
    \/ NextIdentifier
    \/ CallLookup
    \/ SendRequest
    \/ ReceiveResponse
    \/ AppendRows
    \/ Sleep
    \/ BuildResult
    \/ Export

Spec == Init /\ [][Next]_vars

\* ------------------------------------------------------------------ claims

\* The positions of npi_list that have at least one dict in output_rows.
Outcomes == {row_src[k] : k \in 1..Len(row_src)}

\* The dicts of output_rows that came from position k, in order.
RowsOf(k) ==
    LET idx == SelectSeq([j \in 1..Len(row_src) |-> j], LAMBDA j : row_src[j] = k)
    IN  [j \in 1..Len(idx) |-> output_rows[idx[j]]]

\* The unique, non-missing cells of the column.
UniqueCells == {column[k] : k \in 1..Len(column)} \ {NaN}

\* A field of a dict is empty: the key is absent or its value is ''.
EmptyField(row, c) == c \notin DOMAIN row \/ row[c] = ""

OtherFieldsEmpty(row) ==
    \A c \in {"Taxonomy Description", "Primary Taxonomy", "State", "License"} :
        EmptyField(row, c)

IsSentinelRow(row, s, word) ==
    /\ "NPI" \in DOMAIN row /\ row["NPI"] = s
    /\ "Taxonomy Code" \in DOMAIN row /\ row["Taxonomy Code"] = word
    /\ OtherFieldsEmpty(row)

CallsFor(k) == Cardinality({c \in 1..Len(calls) : calls[c] = k})

\* C2: get_taxonomy_data is called exactly once for each identifier that
\* passed the format check, never for a malformed one, and each call issues
\* exactly one request: nothing is retried.
C2_OneLookupPerValid ==
    /\ requests = (IF pc = "request" THEN Len(calls) - 1 ELSE Len(calls))
    /\ \A k \in 1..Len(classified) :
          CallsFor(k) = IF classified[k] /\ ~(k = i /\ pc = "call") THEN 1 ELSE 0
    /\ \A c \in 1..Len(calls) : calls[c] \in 1..Len(classified)

C2_Witness ==
    /\ pc = "sleep"
    /\ last_resp.kind = "timeout"
    /\ Len(calls) = 2
    /\ requests = 2
    /\ \E k \in 1..Len(classified) : ~classified[k]

\* The dicts a step added at the end of output_rows.
Added == SubSeq(output_rows', Len(output_rows) + 1, Len(output_rows'))

IsRecordList(v) ==
    /\ v.t = "list"
    /\ v.items # <<>>
    /\ \A k \in 1..Len(v.items) : v.items[k].t = "dict"

NoRecords(v) == v.t = "none" \/ (v.t = "list" /\ v.items = <<>>)

\* The six fields of the row of one taxonomy object: the five sub-fields
\* copied, a missing one the empty string.
CopiesRecord(row, s, tax) ==
    /\ DOMAIN row = {KeyOrder[k] : k \in 1..Len(KeyOrder)}
    /\ row["NPI"] = s
    /\ row["Taxonomy Code"] = (IF "code" \in DOMAIN tax THEN tax.code ELSE "")
    /\ row["Taxonomy Description"] = (IF "desc" \in DOMAIN tax THEN tax.desc ELSE "")
    /\ row["Primary Taxonomy"] = (IF "primary" \in DOMAIN tax THEN tax.primary ELSE "")
    /\ row["State"] = (IF "state" \in DOMAIN tax THEN tax.state ELSE "")
    /\ row["License"] = (IF "license" \in DOMAIN tax THEN tax.license ELSE "")

FoundStepOk ==
    (pc = "rows" /\ IsRecordList(taxonomies)) =>
        /\ Len(Added) = Len(taxonomies.items)
        /\ \A k \in 1..Len(Added) : CopiesRecord(Added[k], npi, taxonomies.items[k].d)

NotFoundStepOk ==
    (pc = "rows" /\ NoRecords(taxonomies)) =>
        /\ Len(Added) = 1
        /\ IsSentinelRow(Added[1], npi, "Not Found")

\* The step that takes a malformed identifier.
MalformedStep == pc = "loop" /\ i' = i + 1 /\ ~classified'[i']

KeepsRows ==
    /\ Len(output_rows') >= Len(output_rows)
    /\ SubSeq(output_rows', 1, Len(output_rows)) = output_rows

FailedLookup(resp) ==
    \/ resp.kind \in {"timeout", "conn_error"}
    \/ resp.kind = "http" /\ resp.status # 200
    \/ resp.kind = "http" /\ resp.json # "dict"
    \/ resp.kind = "http" /\ ~(resp.has_count /\ resp.result_count > 0)
    \/ resp.kind = "http" /\ resp.results = "absent"

C5_NoAbort == pc # "aborted"

\* The position of the first cell of the column that holds c.
FirstAt(c) ==
    CHOOSE k \in 1..Len(column) : column[k] = c /\ \A j \in 1..(k - 1) : column[j] # c

\* C6: the rows of identifier i precede those of identifier j for i < j in
\* the first-occurrence order of the column, the rows of one identifier are
\* contiguous, each carries its identifier, the result table has the rows of
\* output_rows in their order, and no step reorders or removes a row.

C6_OrderKept ==
    /\ [](/\ \A a, b \in 1..Len(row_src) : a < b => row_src[a] <= row_src[b]
          /\ Len(row_src) = Len(output_rows)
          /\ \A k \in 1..Len(output_rows) : output_rows[k]["NPI"] = seen[row_src[k]]
          /\ \A a, b \in 1..Len(npi_list) :
                a < b => FirstAt(npi_list[a]) < FirstAt(npi_list[b])
          /\ built =>
                /\ Len(result_df.rows) = Len(output_rows)
                /\ \A k \in 1..Len(output_rows) :
                      result_df.rows[k]["NPI"] = output_rows[k]["NPI"]
                      /\ result_df.rows[k]["Taxonomy Code"] = output_rows[k]["Taxonomy Code"])
    /\ [][/\ KeepsRows
          /\ built => result_df' = result_df]_vars

C6_Witness ==
    /\ built
    /\ Len(npi_list) = 3
    /\ row_src = <<1, 2, 2, 3>>

\* C7: at most one request is in flight, and after every attempted lookup
\* the pacing delay runs before the next identifier is taken.
C7_SequentialAndPaced ==
    /\ in_flight \in {0, 1}
    /\ in_flight = 1 <=> pc = "wait"
    /\ pc \in {"idle", "loop", "call", "export", "done"} => sleeps = Len(calls)
    /\ pc \in {"request", "wait", "rows", "sleep", "aborted"} => sleeps = Len(calls) - 1

C7_Witness ==
    /\ pc = "wait"
    /\ Len(calls) = 3
    /\ sleeps = 2
    /\ output_rows[Len(output_rows)]["Taxonomy Code"] = "Not Found"

\* C8: in both drivers an identifier passes the format check exactly when
\* its cell, trimmed and with every ".0" removed, has length 10 and consists
\* of the decimal digits 0-9 only.
C8_ValidIffTenDigits ==
    \A k \in 1..Len(classified) :
        LET s == ReplaceDotZero(Strip(npi_list[k]))
        IN  classified[k] <=>
               (Len(s) = 10 /\ \A j \in 1..Len(s) : s[j] \in AsciiDigits)

\* C9: the exported sheet has the six-column header and one data row per
\* output row, for every result table.
C9_SixColumnSheet ==
    exported =>
        /\ sheet.header = <<"NPI", "Taxonomy Code", "Taxonomy Description",
                            "Primary Taxonomy", "State", "License">>
        /\ Len(sheet.data) = Len(output_rows)

\* C10: the identifiers the loop processes are pairwise distinct after
\* cleaning, so no NPI is looked up twice and none is the NPI of two outcomes.
C10_DistinctAfterCleaning ==
    \A a, b \in 1..Len(seen) : a # b => seen[a] # seen[b]

====
